---- MODULE Spec2Model ----
(***************************************************************************)
(* Session lifecycle and cache consistency of the OnoloGas storefront:     *)
(* the React Query key registry and scoped purge, the session-refresh      *)
(* entry points, the order service's guest handling, and the AuthProvider  *)
(* with the AuthService it drives.                                         *)
(*                                                                         *)
(* Strings the code inspects character by character (user ids, order ids)  *)
(* are sequences of one-character strings; a string literal of the code    *)
(* that is only compared as a whole is the one-element sequence Lit(s).    *)
(***************************************************************************)
EXTENDS Integers, Sequences, FiniteSets, TLC

VARIABLES
    \* React Query cache (QueryClient)
    cache,            \* set of entries [key, data, isInvalidated]
    lastPurge,        \* history: the last clearUserScopedCache call, or NoPurge
    \* session refresh entry points
    inFlightRefresh,  \* module variable of ensureSession: a call id, or NoCall
    pendingRefresh,   \* provider refreshSession calls that have not settled
    callers,          \* each caller: idle, waiting on a call, or done with a result
    nextCall,         \* id the next provider refreshSession call gets
    \* order service
    issuedGuests,     \* ids returned by loginAsGuest
    orderSession,     \* subject of the provider session the order service sees
    ordersTable,      \* rows of the orders table
    lastCall,         \* history: the last order-service call, what it returned,
                      \* and the store and provider calls it issued
    \* AuthProvider, AuthService and the provider's auth client
    variant,          \* 1: contexts/AuthContext.tsx, 2: the listener-driven AuthProvider
    session,          \* subject of the provider session, or None
    signOutPending,   \* a provider signOut call has not settled
    events,           \* auth events the provider has emitted and not yet delivered
    subscribed,       \* AuthProvider's onAuthStateChange callback is registered
    user,             \* AuthProvider state: the current identity, or NoUser
    isLoading,        \* AuthProvider state
    isLoggingOut,     \* AuthProvider state
    watchdog,         \* logout's 5 s timer is armed
    transitionTimer,  \* variant 1 logout's 200 ms setIsLoggingOut(false) timer is armed
    opTask,           \* the operation the application has in progress
    lsn,              \* the run of AuthProvider's auth callback (variant 1: also initializeAuth)
    invalidateTimer,  \* useUpdateProfile's 50 ms invalidation timer: the profile id, or None
    lastOp,           \* history: the last operation that returned, and how
    opsStarted,       \* number of operations and background refreshes so far
    \* the profiles table of the store
    profilesTable,    \* ids that have a row
    \* handleCorruptedAuth
    corruptTask,      \* the run of handleCorruptedAuth: where it is and how it settled
    corruptLog,       \* history: the steps the run has taken, in order
    \* the device's AsyncStorage
    guestStorage,     \* the guest-order keys it holds, the removals that have not
                      \* settled, and history: the keys a removal deleted
    \* listeners registered with the provider's auth client
    mounted,               \* isMountedRef.current of the AuthProvider
    authStateSubscription, \* createAuthStateHandler: what its variable holds, or None
    handlerListeners,      \* callbacks of createAuthStateHandler the provider has registered
    handlerLog,            \* history: the startListening/stopListening calls and how they ended
    \* single calls of AuthService and of the network helpers
    built,                 \* history: the last identity object AuthService built, and from what
    retry,                 \* the run of retryRequest: its loop variables and its calls so far
    timeoutCall            \* the run of withAbortTimeout: its timer, signal and promise

cacheVars   == <<cache, lastPurge>>
refreshVars == <<inFlightRefresh, pendingRefresh, callers, nextCall>>
orderVars   == <<issuedGuests, orderSession, ordersTable, lastCall>>
authVars    == <<variant, session, signOutPending, events, subscribed, user, isLoading,
                 isLoggingOut, watchdog, transitionTimer, invalidateTimer, opTask, lsn, lastOp,
                 opsStarted>>
profileVars == <<profilesTable>>
recoveryVars == <<corruptTask, corruptLog>>
deviceVars  == <<guestStorage>>
listenerVars == <<mounted, authStateSubscription, handlerListeners, handlerLog>>
helperVars  == <<built, retry, timeoutCall>>
vars        == <<cacheVars, refreshVars, orderVars, authVars, profileVars, recoveryVars, deviceVars, listenerVars, helperVars>>

None == <<"none">>
Lit(s) == <<s>>

(***************************************************************************)
(* Bounds of the model.                                                    *)
(***************************************************************************)
MaxCacheEntries == 2
NumCallers == 3
MaxRefreshCalls == 3
MaxOrders == 2
MaxGuests == 1
MaxEvents == 1
MaxOps == 3
MaxHandlerCalls == 3
MaxRetriesTried == 4

\* retryRequest's default delay, in ms (its default maxRetries, 3, is tried)
DefaultDelay == 1000

(***************************************************************************)
(* Identities.  Provider-issued ids are UUIDs (hex digits and dashes).    *)
(***************************************************************************)
UserA == <<"a", "1">>
UserB == <<"b", "2">>
Accounts == {UserA, UserB}

(***************************************************************************)
(* String.prototype.startsWith                                             *)
(***************************************************************************)
StartsWith(s, p) ==
    /\ Len(s) >= Len(p)
    /\ SubSeq(s, 1, Len(p)) = p

(***************************************************************************)
(* Key registry (lib/queryKeys) and the address keys.                      *)
(***************************************************************************)
AuthKeys == { <<Lit("auth"), Lit("user")>>,
              <<Lit("auth"), Lit("session")>>,
              <<Lit("auth"), Lit("status")>> }
AuthUserKey == <<Lit("auth"), Lit("user")>>
AuthSessionKey == <<Lit("auth"), Lit("session")>>

ProfileDetail(userId) == <<Lit("user"), userId, Lit("profile")>>
ProfileAll == <<Lit("profile")>>
OrdersAll == <<Lit("orders")>>
OrdersByUser(userId) == <<Lit("orders"), Lit("user"), userId>>
OrdersDetail(orderId) == <<Lit("orders"), Lit("detail"), orderId>>
OrdersStats(userId) == <<Lit("orders"), Lit("stats"), userId>>
MessagesAll == <<Lit("messages")>>
MessagesByUser(userId) == <<Lit("messages"), Lit("user"), userId>>
MessagesUnreadCount(userId) == <<Lit("messages"), Lit("unread"), userId>>
MessagesConversation(userId) == <<Lit("messages"), Lit("conversation"), userId>>
MessagesByDate(userId, date) ==
    <<Lit("messages"), Lit("user"), userId, Lit("date"), date>>
NotificationsSettings(userId) == <<Lit("notifications"), Lit("settings"), userId>>
NotificationsPreferences(userId) == <<Lit("notifications"), Lit("preferences"), userId>>
NotificationsHistory(userId) == <<Lit("notifications"), Lit("history"), userId>>
AddressList(userId) == <<Lit("user"), userId, Lit("addresses")>>
AddressDefaults(userId) == <<Lit("user"), userId, Lit("default-address")>>

getUserScopedKeys(userId) ==
    { ProfileDetail(userId),
      OrdersByUser(userId),
      OrdersStats(userId),
      MessagesByUser(userId),
      MessagesUnreadCount(userId),
      MessagesConversation(userId),
      NotificationsSettings(userId),
      NotificationsPreferences(userId),
      NotificationsHistory(userId) }

SomeDate == <<"2", "0", "2", "5">>
SomeOrderId == <<"o", "1">>

\* Every key a hook of the application can put in the cache for these users.
AllKeys ==
    AuthKeys
    \cup { ProfileAll, OrdersAll, MessagesAll, OrdersDetail(SomeOrderId) }
    \cup UNION { getUserScopedKeys(u)
                 \cup { MessagesByDate(u, SomeDate), AddressList(u), AddressDefaults(u) }
                 : u \in Accounts }

DataValues == {Lit("d1"), Lit("d2")}

KeyIncludes(key, x) == \E i \in 1..Len(key) : key[i] = x

\* The predicate clearUserScopedCache hands to removeQueries (mutant: the
\* first clause forgets to compare key[1] with the user id).
PurgePredicateAnyUser(key, userId) ==
    \/ (Len(key) >= 1 /\ key[1] = Lit("user"))
    \/ (Len(key) >= 1 /\ key[1] = Lit("auth"))
    \/ (Len(key) >= 3 /\ key[1] = Lit("orders") /\ key[2] = Lit("user") /\ key[3] = userId)
    \/ (Len(key) >= 3 /\ key[1] = Lit("messages") /\ key[2] = Lit("user") /\ key[3] = userId)
    \/ (Len(key) >= 1 /\ key[1] = Lit("notifications") /\ KeyIncludes(key, userId))

PurgePredicate(key, userId) ==
    \/ (Len(key) >= 2 /\ key[1] = Lit("user") /\ key[2] = userId)
    \/ (Len(key) >= 1 /\ key[1] = Lit("auth"))
    \/ (Len(key) >= 3 /\ key[1] = Lit("orders") /\ key[2] = Lit("user") /\ key[3] = userId)
    \/ (Len(key) >= 3 /\ key[1] = Lit("messages") /\ key[2] = Lit("user") /\ key[3] = userId)
    \/ (Len(key) >= 1 /\ key[1] = Lit("notifications") /\ KeyIncludes(key, userId))

\* queryClient.removeQueries({ predicate }) as clearUserScopedCache calls it
RemoveUserScoped(c, userId) == { e \in c : ~PurgePredicate(e.key, userId) }

\* queryClient.setQueryData(key, data): one entry per key, fresh
SetData(c, key, data) ==
    { e \in c : e.key # key }
        \cup { [key |-> key, data |-> data, isInvalidated |-> FALSE] }

CacheKeys(c) == { e.key : e \in c }

NoPurge == [user |-> None, before |-> {}]

InitCacheVars ==
    /\ cache = {}
    /\ lastPurge = NoPurge

NoCall == 0

InitRefreshVars ==
    /\ inFlightRefresh = NoCall
    /\ pendingRefresh = {}
    /\ callers = [c \in 1..NumCallers |-> [state |-> "idle", call |-> NoCall, result |-> "none"]]
    /\ nextCall = 1

NoOrderCall == [op |-> "none", userId |-> None, result |-> [kind |-> "none"],
                store |-> {}, provider |-> {}]

InitOrderVars ==
    /\ issuedGuests = {}
    /\ orderSession = None
    /\ ordersTable = {}
    /\ lastCall = NoOrderCall

\* the profiles table: rows is the set of ids that have a row
InitProfileVars(rows) == profilesTable = rows

\* no run of handleCorruptedAuth has started
CorruptIdle == [pc |-> "idle", userId |-> None, promise |-> "none"]

InitRecoveryVars ==
    /\ corruptTask = CorruptIdle
    /\ corruptLog = << >>

\* the AuthProvider is mounted, createAuthStateHandler has just been called
InitListenerVars ==
    /\ mounted = TRUE
    /\ authStateSubscription = None
    /\ handlerListeners = 0
    /\ handlerLog = << >>

\* a helper that is not called in a run
Unused == [pc |-> "unused"]

InitHelperVars(b, r, t) ==
    /\ built = b
    /\ retry = r
    /\ timeoutCall = t

\* AsyncStorage at start: keys are the guest-order keys it holds
InitDeviceVars(keys) ==
    guestStorage = [keys |-> keys, pending |-> {}, removed |-> {}]

(***************************************************************************)
(* Identities, auth events and tasks of the AuthProvider.                  *)
(***************************************************************************)
NoUser == [id |-> None, email |-> None, isGuest |-> FALSE]

\* the email the provider holds for an account
EmailOf(account) == account \o <<"@">>

AuthEvent(type, subject) == [type |-> type, subject |-> subject]

Task(kind, pc, target, userId, authUser, flag) ==
    [kind |-> kind, pc |-> pc, target |-> target, userId |-> userId,
     authUser |-> authUser, flag |-> flag]

Idle == Task("idle", "idle", None, None, None, FALSE)

NoOp == [kind |-> "none", success |-> FALSE, error |-> None, userId |-> None, flag |-> FALSE,
         cause |-> "none", service |-> "none", promise |-> "none"]

\* useState initial values, and the effect that runs on mount: variant 1
\* starts initializeAuth, variant 2 registers its callback at once; answered
\* says whether the provider answers the registration with INITIAL_SESSION
InitAuthVars(v, s, answered) ==
    /\ variant = v
    /\ session = s
    /\ signOutPending = FALSE
    /\ events = IF v = 2 /\ answered THEN << AuthEvent("INITIAL_SESSION", s) >> ELSE << >>
    /\ subscribed = (v = 2)
    /\ user = NoUser
    /\ isLoading = TRUE
    /\ isLoggingOut = FALSE
    /\ watchdog = FALSE
    /\ transitionTimer = FALSE
    /\ invalidateTimer = None
    /\ opTask = Idle
    /\ lsn = IF v = 1 THEN Task("init", "getSession", None, None, None, FALSE) ELSE Idle
    /\ lastOp = NoOp
    /\ opsStarted = 0

(***************************************************************************)
(* The cache on its own: hooks write entries, clearUserScopedCache purges. *)
(***************************************************************************)
SetQueryData(key, data) ==
    /\ \/ key \in CacheKeys(cache)
       \/ Cardinality(cache) < MaxCacheEntries
    /\ cache' = SetData(cache, key, data)
    /\ lastPurge' = NoPurge
    /\ UNCHANGED <<refreshVars, orderVars, authVars, profileVars, recoveryVars, deviceVars, listenerVars, helperVars>>

clearUserScopedCache(userId) ==
    /\ cache' = RemoveUserScoped(cache, userId)
    /\ lastPurge' = [user |-> userId, before |-> cache]
    /\ UNCHANGED <<refreshVars, orderVars, authVars, profileVars, recoveryVars, deviceVars, listenerVars, helperVars>>

InitCache ==
    /\ InitCacheVars /\ InitRefreshVars /\ InitOrderVars /\ InitAuthVars(1, None, TRUE)
    /\ InitProfileVars(Accounts) /\ InitRecoveryVars /\ InitDeviceVars({}) /\ InitListenerVars /\ InitHelperVars(Unused, Unused, Unused)

NextCache ==
    \/ \E key \in AllKeys, data \in DataValues : SetQueryData(key, data)
    \/ \E userId \in Accounts : clearUserScopedCache(userId)

SpecCache == InitCache /\ [][NextCache]_vars

\* C1: after clearUserScopedCache(A), no key that getUserScopedKeys(A) builds
\* is left in the cache.
C1_PurgeRemovesAllScopedKeys ==
    lastPurge.user # None =>
        \A key \in getUserScopedKeys(lastPurge.user) : key \notin CacheKeys(cache)

\* C2: clearUserScopedCache(A) leaves every entry scoped to another user B,
\* outside the auth namespace, in the cache with the value it had.
C2_PurgeLeavesOtherUsers ==
    lastPurge.user # None =>
        \A e \in lastPurge.before :
            ( /\ e.key[1] # Lit("auth")
              /\ \E b \in Accounts \ {lastPurge.user} : KeyIncludes(e.key, b) )
            => e \in cache

C2_Witness ==
    /\ lastPurge.user # None
    /\ cache # lastPurge.before
    /\ \E e \in lastPurge.before :
          \E b \in Accounts \ {lastPurge.user} : KeyIncludes(e.key, b)

(***************************************************************************)
(* Session refresh: ensureSession shares one in-flight provider call,      *)
(* AuthService.refreshToken calls the provider directly.                   *)
(***************************************************************************)
RefreshOutcomes == {"session", "error"}

Waiting(call) == [state |-> "waiting", call |-> call, result |-> "none"]

ensureSession(c) ==
    /\ callers[c].state = "idle"
    /\ IF inFlightRefresh = NoCall
          THEN /\ nextCall <= MaxRefreshCalls
               /\ inFlightRefresh' = nextCall
               /\ pendingRefresh' = pendingRefresh \cup {nextCall}
               /\ nextCall' = nextCall + 1
               /\ callers' = [callers EXCEPT ![c] = Waiting(nextCall)]
          ELSE /\ callers' = [callers EXCEPT ![c] = Waiting(inFlightRefresh)]
               /\ UNCHANGED <<inFlightRefresh, pendingRefresh, nextCall>>
    /\ UNCHANGED <<cacheVars, orderVars, authVars, profileVars, recoveryVars, deviceVars, listenerVars, helperVars>>

refreshToken(c) ==
    /\ callers[c].state = "idle"
    /\ nextCall <= MaxRefreshCalls
    /\ pendingRefresh' = pendingRefresh \cup {nextCall}
    /\ nextCall' = nextCall + 1
    /\ callers' = [callers EXCEPT ![c] = Waiting(nextCall)]
    /\ UNCHANGED inFlightRefresh
    /\ UNCHANGED <<cacheVars, orderVars, authVars, profileVars, recoveryVars, deviceVars, listenerVars, helperVars>>

\* The provider call settles: the finally callback clears inFlightRefresh,
\* then every caller awaiting this call resumes with its outcome.
RefreshSettles(call, outcome) ==
    /\ call \in pendingRefresh
    /\ pendingRefresh' = pendingRefresh \ {call}
    /\ inFlightRefresh' = IF inFlightRefresh = call THEN NoCall ELSE inFlightRefresh
    /\ callers' = [c \in DOMAIN callers |->
                      IF callers[c].state = "waiting" /\ callers[c].call = call
                         THEN [state |-> "done", call |-> call, result |-> outcome]
                         ELSE callers[c]]
    /\ UNCHANGED nextCall
    /\ UNCHANGED <<cacheVars, orderVars, authVars, profileVars, recoveryVars, deviceVars, listenerVars, helperVars>>

CallerReturns(c) ==
    /\ callers[c].state = "done"
    /\ callers' = [callers EXCEPT ![c] = [state |-> "idle", call |-> NoCall, result |-> "none"]]
    /\ UNCHANGED <<inFlightRefresh, pendingRefresh, nextCall>>
    /\ UNCHANGED <<cacheVars, orderVars, authVars, profileVars, recoveryVars, deviceVars, listenerVars, helperVars>>

InitRefresh ==
    /\ InitCacheVars /\ InitRefreshVars /\ InitOrderVars /\ InitAuthVars(1, None, TRUE)
    /\ InitProfileVars(Accounts) /\ InitRecoveryVars /\ InitDeviceVars({}) /\ InitListenerVars /\ InitHelperVars(Unused, Unused, Unused)

NextRefresh ==
    \/ \E c \in 1..NumCallers : ensureSession(c)
    \/ \E c \in 1..NumCallers : refreshToken(c)
    \/ \E call \in 1..MaxRefreshCalls, outcome \in RefreshOutcomes : RefreshSettles(call, outcome)
    \/ \E c \in 1..NumCallers : CallerReturns(c)

SpecRefresh == InitRefresh /\ [][NextRefresh]_vars

\* C3: callers that ask for a refresh while one is in flight share it: at most
\* one provider refreshSession call is pending, and every waiting caller
\* waits on that call.
C3_SingleProviderRefresh ==
    /\ Cardinality(pendingRefresh) <= 1
    /\ \A c \in 1..NumCallers :
          callers[c].state = "waiting" => callers[c].call \in pendingRefresh

(***************************************************************************)
(* Guest ids and the order service.                                        *)
(***************************************************************************)
GuestPrefix == <<"g", "u", "e", "s", "t", "-">>
GuestOrderPrefix == <<"g", "u", "e", "s", "t", "-", "o", "r", "d", "e", "r", "-">>

\* Date.now() and Math.random().toString(36).substr(2, 9), as digit strings
Timestamps == { <<"1">>, <<"2">> }
RandomParts == { <<"x">>, <<>> }

\* AuthService.loginAsGuest: the synthesized guest identity
GuestUser(now, rnd) ==
    [ id |-> <<"g", "u", "e", "s", "t", "-">> \o now \o <<"-">> \o rnd,
      email |-> <<>>,
      isGuest |-> TRUE ]

loginAsGuest(now, rnd) == [success |-> TRUE, user |-> GuestUser(now, rnd)]

OrderIds == { <<"o", ToString(i)>> : i \in 1..MaxOrders }

ZeroStats == [total |-> 0, pending |-> 0, completed |-> 0, cancelled |-> 0]

StatsOf(rows) ==
    [ total |-> Cardinality(rows),
      pending |-> Cardinality({ r \in rows : r.status = "pending" }),
      completed |-> Cardinality({ r \in rows : r.status = "delivered" }),
      cancelled |-> Cardinality({ r \in rows : r.status = "cancelled" }) ]

StoreAccess(op, table, userId) == [op |-> op, table |-> table, userId |-> userId]

OrderCall(op, userId, result, store, provider) ==
    [op |-> op, userId |-> userId, result |-> result, store |-> store, provider |-> provider]

\* the ids the order service is called with: guests in use and the accounts
OrderUsers == issuedGuests \cup Accounts

GuestSessionStarts(now, rnd) ==
    /\ loginAsGuest(now, rnd).success
    /\ Cardinality(issuedGuests \cup { loginAsGuest(now, rnd).user.id }) <= MaxGuests
    /\ issuedGuests' = issuedGuests \cup { loginAsGuest(now, rnd).user.id }
    /\ UNCHANGED <<orderSession, ordersTable, lastCall>>
    /\ UNCHANGED <<cacheVars, refreshVars, authVars, profileVars, recoveryVars, deviceVars, listenerVars, helperVars>>

\* the provider's session as the order service finds it
OrderSessionChanges(s) ==
    /\ orderSession # s
    /\ orderSession' = s
    /\ UNCHANGED <<issuedGuests, ordersTable, lastCall>>
    /\ UNCHANGED <<cacheVars, refreshVars, authVars, profileVars, recoveryVars, deviceVars, listenerVars, helperVars>>

\* createGuestOrder: a local order, nothing sent to the orders store
createGuestOrder(userId, now, rnd) ==
    [ kind |-> "order",
      id |-> <<"g", "u", "e", "s", "t", "-", "o", "r", "d", "e", "r", "-">>
                \o now \o <<"-">> \o rnd,
      userId |-> userId,
      isGuestOrder |-> TRUE ]

\* guestOrderNotificationService.notifyGuestOrder: the accesses to the orders
\* store it issues (none: a guest's order never reaches the order store)
notifyGuestOrder(order) == {}

\* the inserts into orders and order_items and what createOrder returns; a
\* failed insert of the items leaves the order row behind
InsertOrder(userId, dbOk, itemsOk) ==
    IF dbOk
       THEN \E id \in OrderIds :
               /\ id \notin { r.id : r \in ordersTable }
               /\ ordersTable' = ordersTable \cup
                     { [id |-> id, customer_id |-> userId, status |-> "pending"] }
               /\ lastCall' = OrderCall("createOrder", userId,
                                 IF itemsOk
                                    THEN [ kind |-> "order", id |-> id, userId |-> userId,
                                           isGuestOrder |-> FALSE ]
                                    ELSE [kind |-> "error"],
                                 { StoreAccess("insert", "orders", userId),
                                   StoreAccess("insert", "order_items", userId) }, {})
       ELSE /\ UNCHANGED ordersTable
            /\ lastCall' = OrderCall("createOrder", userId, [kind |-> "error"],
                              { StoreAccess("insert", "orders", userId) }, {})

createOrder(userId, now, rnd, dbOk, itemsOk) ==
    /\ IF StartsWith(userId, GuestPrefix)
          THEN /\ lastCall' = OrderCall("createOrder", userId,
                                 createGuestOrder(userId, now, rnd),
                                 notifyGuestOrder(createGuestOrder(userId, now, rnd)), {})
               /\ UNCHANGED ordersTable
          ELSE InsertOrder(userId, dbOk, itemsOk)
    /\ UNCHANGED <<issuedGuests, orderSession>>
    /\ UNCHANGED <<cacheVars, refreshVars, authVars, profileVars, recoveryVars, deviceVars, listenerVars, helperVars>>

\* cancelOrder: a guest order is cancelled locally, any other in the store
cancelOrder(orderId, dbOk) ==
    /\ IF StartsWith(orderId, GuestOrderPrefix)
          THEN /\ lastCall' = OrderCall("cancelOrder", None,
                                 [kind |-> "bool", value |-> TRUE], {}, {})
               /\ UNCHANGED ordersTable
          ELSE /\ ordersTable' =
                     IF dbOk
                        THEN { IF r.id = orderId
                                  THEN [r EXCEPT !.status = "cancelled"] ELSE r
                               : r \in ordersTable }
                        ELSE ordersTable
               /\ lastCall' = OrderCall("cancelOrder", None,
                                 [kind |-> "bool", value |-> dbOk],
                                 { StoreAccess("update", "orders", None) }, {})
    /\ UNCHANGED <<issuedGuests, orderSession>>
    /\ UNCHANGED <<cacheVars, refreshVars, authVars, profileVars, recoveryVars, deviceVars, listenerVars, helperVars>>

\* the select on customer_id and the statistics computed from its rows
SelectStats(userId, dbOk) ==
    OrderCall("getOrderStats", userId,
              IF dbOk
                 THEN [ kind |-> "stats",
                        stats |-> StatsOf({ r \in ordersTable : r.customer_id = userId }) ]
                 ELSE [kind |-> "error"],
              { StoreAccess("select", "orders", userId) }, {})

\* mutant: getOrderStats without the guest check
getOrderStatsNoGuestCheck(userId, dbOk) ==
    /\ lastCall' = SelectStats(userId, dbOk)
    /\ UNCHANGED <<issuedGuests, orderSession, ordersTable>>
    /\ UNCHANGED <<cacheVars, refreshVars, authVars, profileVars, recoveryVars, deviceVars, listenerVars, helperVars>>

getOrderStats(userId, dbOk) ==
    /\ IF StartsWith(userId, GuestPrefix)
          THEN lastCall' = OrderCall("getOrderStats", userId,
                              [kind |-> "stats", stats |-> ZeroStats], {}, {})
          ELSE lastCall' = SelectStats(userId, dbOk)
    /\ UNCHANGED <<issuedGuests, orderSession, ordersTable>>
    /\ UNCHANGED <<cacheVars, refreshVars, authVars, profileVars, recoveryVars, deviceVars, listenerVars, helperVars>>

\* getOrders: withSession (ensureSession asks the provider for a refresh and
\* throws without a session), then the select on customer_id
getOrders(userId, dbOk) ==
    /\ IF orderSession = None
          THEN lastCall' = OrderCall("getOrders", userId, [kind |-> "error"],
                              {}, {"refreshSession"})
          ELSE lastCall' = OrderCall("getOrders", userId,
                              IF dbOk
                                 THEN [ kind |-> "orders",
                                        rows |-> { r \in ordersTable :
                                                     r.customer_id = userId } ]
                                 ELSE [kind |-> "error"],
                              { StoreAccess("select", "orders", userId) },
                              {"refreshSession"})
    /\ UNCHANGED <<issuedGuests, orderSession, ordersTable>>
    /\ UNCHANGED <<cacheVars, refreshVars, authVars, profileVars, recoveryVars, deviceVars, listenerVars, helperVars>>

InitOrders ==
    /\ InitCacheVars /\ InitRefreshVars /\ InitOrderVars /\ InitAuthVars(1, None, TRUE)
    /\ InitProfileVars(Accounts) /\ InitRecoveryVars /\ InitDeviceVars({}) /\ InitListenerVars /\ InitHelperVars(Unused, Unused, Unused)

NextOrders ==
    \/ \E now \in Timestamps, rnd \in RandomParts : GuestSessionStarts(now, rnd)
    \/ \E s \in Accounts \cup {None} : OrderSessionChanges(s)
    \/ \E userId \in OrderUsers, now \in Timestamps, rnd \in RandomParts,
          dbOk \in BOOLEAN, itemsOk \in BOOLEAN :
          createOrder(userId, now, rnd, dbOk, itemsOk)
    \/ \E orderId \in OrderIds \cup
                      { createGuestOrder(None, now, rnd).id :
                          now \in Timestamps, rnd \in RandomParts },
          dbOk \in BOOLEAN : cancelOrder(orderId, dbOk)
    \/ \E userId \in OrderUsers, dbOk \in BOOLEAN : getOrderStats(userId, dbOk)
    \/ \E userId \in OrderUsers, dbOk \in BOOLEAN : getOrders(userId, dbOk)

SpecOrders == InitOrders /\ [][NextOrders]_vars

\* C9: every id loginAsGuest produced starts with "guest-"; createOrder and
\* getOrderStats issue no access to the orders store for such an id;
\* createOrder answers it with a local order whose id starts with
\* "guest-order-" and getOrderStats with all-zero statistics.
C9_GuestIsolation ==
    /\ \A g \in issuedGuests : StartsWith(g, GuestPrefix)
    /\ (lastCall.op = "createOrder" /\ lastCall.userId \in issuedGuests) =>
          /\ lastCall.store = {}
          /\ lastCall.result.kind = "order"
          /\ StartsWith(lastCall.result.id, GuestOrderPrefix)
          /\ lastCall.result.userId = lastCall.userId
    /\ (lastCall.op = "getOrderStats" /\ lastCall.userId \in issuedGuests) =>
          /\ lastCall.store = {}
          /\ lastCall.result.kind = "stats"
          /\ lastCall.result.stats = ZeroStats
    /\ \A r \in ordersTable : r.customer_id \notin issuedGuests

C9_Witness ==
    /\ lastCall.op = "getOrderStats"
    /\ lastCall.userId \in issuedGuests
    /\ \E r \in ordersTable : r.customer_id \in Accounts

\* C10: getOrders for a guest id issues no provider session call and no
\* query against the orders store with that id.
C10_GuestListingShortCircuits ==
    (lastCall.op = "getOrders" /\ lastCall.userId \in issuedGuests) =>
        /\ lastCall.store = {}
        /\ lastCall.provider = {}

(***************************************************************************)
(* AuthService, the provider's auth client, the cache's auth state handler *)
(* and the two AuthProvider variants.  The provider stays mounted.         *)
(***************************************************************************)
ProfileOutcomes == {"row", "missing", "cors", "error"}

\* AuthService.loadUserProfile, from the two reads it makes: authUser is what
\* getUser returned, outcome what the select on profiles with eq('id', userId)
\* returned; null is NoUser
loadUserProfile(userId, authUser, outcome) ==
    IF authUser = None \/ outcome = "error"
       THEN NoUser
       ELSE IF outcome = "row"
               THEN [id |-> userId, email |-> EmailOf(authUser), isGuest |-> FALSE]
               ELSE [id |-> authUser, email |-> EmailOf(authUser), isGuest |-> FALSE]

\* AuthService.getCurrentUser: supabase.auth.getSession()
AfterGetSession(t) ==
    IF session = None
       THEN [t EXCEPT !.pc = "null"]
       ELSE [t EXCEPT !.pc = "getUser", !.userId = session]

\* AuthService.loadUserProfile: supabase.auth.getUser()
AfterGetUser(t) ==
    IF session = None
       THEN [t EXCEPT !.pc = "null"]
       ELSE [t EXCEPT !.pc = "select", !.authUser = session]

AuthResult(loaded, error) ==
    [success |-> loaded # NoUser, user |-> loaded, error |-> IF loaded # NoUser THEN None ELSE error]

\* queryClient.invalidateQueries({ queryKey: [prefix] })
InvalidateQueries(c, prefix) ==
    { IF e.key[1] = prefix THEN [e EXCEPT !.isInvalidated = TRUE] ELSE e : e \in c }

\* queryClient.getQueryData(key); the data under ['auth', 'user'] is kept as
\* the user's id
GetQueryData(c, key) ==
    IF \E e \in c : e.key = key
       THEN (CHOOSE e \in c : e.key = key).data
       ELSE None

\* createAuthStateHandler's callback, as a function of the cache
AuthStateHandler(c, event) ==
    IF event.type = "SIGNED_IN"
       THEN InvalidateQueries(InvalidateQueries(c, Lit("auth")), Lit("user"))
       ELSE IF event.type = "SIGNED_OUT"
               THEN IF GetQueryData(c, AuthUserKey) # None
                       THEN RemoveUserScoped(c, GetQueryData(c, AuthUserKey))
                       ELSE {}
               ELSE c

AuthStateHandlerPurge(c, event) ==
    IF event.type = "SIGNED_OUT" /\ GetQueryData(c, AuthUserKey) # None
       THEN [user |-> GetQueryData(c, AuthUserKey), before |-> c]
       ELSE NoPurge

\* invalidateQueries.allUserData of utils/queryClient, which useLogin calls to
\* "Prefetch user data": the user's profile, orders and messages are fetched
allUserData(c, userId) ==
    SetData(SetData(SetData(c, ProfileDetail(userId), Lit("d1")),
                    OrdersByUser(userId), Lit("d1")),
            MessagesByUser(userId), Lit("d1"))

\* the provider emits an auth event
Emit(type, subject) == Append(events, AuthEvent(type, subject))

(* ---- AuthProvider's auth callback and variant 1's initializeAuth ---- *)

\* what the callback (or initializeAuth) does once getCurrentUser returned
LsnUserAfter(result) ==
    IF lsn.kind = "event" THEN result
    ELSE IF result # NoUser THEN result ELSE user

LsnTaskAfter ==
    IF lsn.kind = "signedIn1"
       THEN Task("signedIn2", "getSession", None, None, None, FALSE)
       ELSE Idle

LsnCompletes(result) ==
    /\ user' = IF mounted THEN LsnUserAfter(result) ELSE user
    /\ lsn' = LsnTaskAfter
    /\ isLoading' = IF lsn.kind = "signedIn1" \/ ~mounted THEN isLoading ELSE FALSE
    /\ subscribed' = IF lsn.kind = "init" THEN TRUE ELSE subscribed

LsnFrame ==
    /\ UNCHANGED <<cacheVars, refreshVars, orderVars, profileVars, recoveryVars, deviceVars, listenerVars, helperVars>>
    /\ UNCHANGED <<invalidateTimer, opsStarted, variant, session, signOutPending, events, isLoggingOut, watchdog,
                   transitionTimer, opTask, lastOp>>

LsnGetSession ==
    /\ lsn.pc = "getSession"
    /\ IF AfterGetSession(lsn).pc = "null"
          THEN LsnCompletes(NoUser)
          ELSE /\ lsn' = AfterGetSession(lsn)
               /\ UNCHANGED <<user, isLoading, subscribed>>
    /\ LsnFrame

LsnGetUser ==
    /\ lsn.pc = "getUser"
    /\ IF AfterGetUser(lsn).pc = "null"
          THEN LsnCompletes(NoUser)
          ELSE /\ lsn' = AfterGetUser(lsn)
               /\ UNCHANGED <<user, isLoading, subscribed>>
    /\ LsnFrame

LsnSelectSettles(outcome) ==
    /\ lsn.pc = "select"
    /\ outcome = "row" => lsn.userId \in profilesTable
    /\ LsnCompletes(loadUserProfile(lsn.userId, lsn.authUser, outcome))
    /\ LsnFrame

\* whether AuthProvider's callback awaits getCurrentUser for this event
HandlerAwaits(v, event) ==
    IF v = 1
       THEN event.type = "SIGNED_IN" /\ event.subject # None
       ELSE \/ event.type \in {"SIGNED_IN", "TOKEN_REFRESHED"}
            \/ (event.type = "INITIAL_SESSION" /\ event.subject # None)

\* the provider delivers its oldest event to the subscribers: the cache's
\* handler runs to its end, AuthProvider's callback up to its first await.
\* A run of the callback that awaits nothing can come while an earlier run is
\* still waiting; at most one run is waiting at any time.
DeliverEvent ==
    /\ events # << >>
    /\ (subscribed /\ HandlerAwaits(variant, Head(events))) => lsn = Idle
    /\ events' = Tail(events)
    /\ cache' = AuthStateHandler(cache, Head(events))
    /\ lastPurge' = AuthStateHandlerPurge(cache, Head(events))
    /\ IF ~subscribed
          THEN UNCHANGED <<user, isLoading, isLoggingOut, lsn>>
          ELSE IF variant = 1
                  THEN IF Head(events).type = "SIGNED_IN" /\ Head(events).subject # None
                          THEN /\ lsn' = Task("signedIn1", "getSession", None, None, None, FALSE)
                               /\ UNCHANGED <<user, isLoading, isLoggingOut>>
                          ELSE /\ user' = IF Head(events).type = "SIGNED_OUT" THEN NoUser ELSE user
                               /\ isLoading' = FALSE
                               /\ UNCHANGED <<isLoggingOut, lsn>>
                  ELSE IF \/ Head(events).type \in {"SIGNED_IN", "TOKEN_REFRESHED"}
                          \/ (Head(events).type = "INITIAL_SESSION" /\ Head(events).subject # None)
                          THEN /\ lsn' = Task("event", "getSession", None, None, None, FALSE)
                               /\ UNCHANGED <<user, isLoading, isLoggingOut>>
                          ELSE /\ user' = NoUser
                               /\ isLoading' = FALSE
                               /\ isLoggingOut' = IF Head(events).type = "SIGNED_OUT"
                                                     THEN FALSE ELSE isLoggingOut
                               /\ UNCHANGED lsn
    /\ UNCHANGED <<refreshVars, orderVars, profileVars, recoveryVars, deviceVars, listenerVars, helperVars>>
    /\ UNCHANGED <<invalidateTimer, opsStarted, variant, session, signOutPending, subscribed, watchdog, transitionTimer,
                   opTask, lastOp>>

\* the provider renews the session in the background
TokenRefreshed ==
    /\ opsStarted < MaxOps
    /\ opsStarted' = opsStarted + 1
    /\ session # None
    /\ Len(events) < MaxEvents
    /\ events' = Emit("TOKEN_REFRESHED", session)
    /\ UNCHANGED <<cacheVars, refreshVars, orderVars, profileVars, recoveryVars, deviceVars, listenerVars, helperVars>>
    /\ UNCHANGED <<invalidateTimer, variant, session, signOutPending, subscribed, user, isLoading, isLoggingOut,
                   watchdog, transitionTimer, opTask, lsn, lastOp>>

(* ---- login: AuthProvider.login and the useLogin mutation ---- *)

OpDone(kind, success, error, userId, flag) ==
    [kind |-> kind, success |-> success, error |-> error, userId |-> userId, flag |-> flag,
     cause |-> "none", service |-> "none", promise |-> "none"]

login(target) ==
    /\ opsStarted < MaxOps
    /\ opsStarted' = opsStarted + 1
    /\ opTask = Idle
    /\ isLoading' = TRUE
    /\ opTask' = Task("login", "signIn", target, None, None, user = NoUser /\ session = None)
    /\ lastOp' = NoOp
    /\ UNCHANGED <<cacheVars, refreshVars, orderVars, profileVars, recoveryVars, deviceVars, listenerVars, helperVars>>
    /\ UNCHANGED <<invalidateTimer, variant, session, signOutPending, events, subscribed, user, isLoggingOut,
                   watchdog, transitionTimer, lsn>>

useLogin(target) ==
    /\ opsStarted < MaxOps
    /\ opsStarted' = opsStarted + 1
    /\ opTask = Idle
    /\ opTask' = Task("useLogin", "signIn", target, None, None, user = NoUser /\ session = None)
    /\ lastOp' = NoOp
    /\ UNCHANGED <<cacheVars, refreshVars, orderVars, profileVars, recoveryVars, deviceVars, listenerVars, helperVars>>
    /\ UNCHANGED <<invalidateTimer, variant, session, signOutPending, events, subscribed, user, isLoading,
                   isLoggingOut, watchdog, transitionTimer, lsn>>

\* AuthService.register has returned result to AuthProvider.register, which
\* goes on to its end or, in variant 1 after a success, to its check with
\* getCurrentUser
RegisterReturns(result) ==
    /\ UNCHANGED <<cacheVars, invalidateTimer>>
    /\ IF result.success /\ variant = 1
          THEN /\ user' = result.user
               /\ opTask' = Task("registerVerify", "getSession", opTask.target, None, None,
                                 opTask.flag)
               /\ UNCHANGED <<isLoading, lastOp>>
          ELSE /\ UNCHANGED user
               /\ isLoading' = IF result.success THEN isLoading ELSE FALSE
               /\ opTask' = Idle
               /\ lastOp' = OpDone("register", result.success, result.error,
                                   opTask.target, opTask.flag)

\* AuthService.register after its loadUserProfile: a null profile is replaced
\* by the fallback user built from the request
RegisterAfterLoad(loaded, target) ==
    [success |-> TRUE,
     user |-> IF loaded # NoUser
                 THEN loaded
                 ELSE [id |-> target, email |-> EmailOf(target), isGuest |-> FALSE],
     error |-> None]

\* the operation returns to its caller: result is the AuthResult of
\* AuthService.login, or carries what loadUserProfile or getCurrentUser returned
OpReturns(result) ==
    IF opTask.kind = "login"
       THEN /\ opTask' = Idle
            /\ user' = IF variant = 1 /\ result.success THEN result.user ELSE user
            /\ isLoading' = IF variant = 1 THEN FALSE ELSE isLoading
            /\ UNCHANGED <<cacheVars, invalidateTimer>>
            /\ lastOp' = OpDone("login", result.success, result.error,
                                opTask.target, opTask.flag)
    ELSE IF opTask.kind = "updateProfile"
       THEN /\ opTask' = Idle
            /\ user' = IF variant = 2 \/ result.user # NoUser THEN result.user ELSE user
            /\ invalidateTimer' = opTask.target
            /\ UNCHANGED <<isLoading, cacheVars>>
            /\ lastOp' = OpDone("updateProfile", TRUE, None, opTask.target, TRUE)
    ELSE IF opTask.kind = "register"
       THEN RegisterReturns(RegisterAfterLoad(result.user, opTask.target))
    ELSE IF opTask.kind = "registerVerify"
       THEN /\ opTask' = Idle
            /\ user' = IF result.user # NoUser THEN result.user ELSE user
            /\ isLoading' = FALSE
            /\ UNCHANGED <<cacheVars, invalidateTimer>>
            /\ lastOp' = OpDone("register", TRUE, None, opTask.target, opTask.flag)
       ELSE /\ opTask' = Idle
            /\ UNCHANGED invalidateTimer
            /\ cache' = IF result.success
                           THEN allUserData(
                                   SetData(SetData(cache, AuthUserKey, result.user.id),
                                           AuthSessionKey, Lit("true")),
                                   result.user.id)
                           ELSE cache
            /\ lastPurge' = IF result.success THEN NoPurge ELSE lastPurge
            /\ UNCHANGED <<user, isLoading>>
            /\ lastOp' = OpDone("useLogin", result.success, result.error,
                                opTask.target, opTask.flag)

OpFrame ==
    /\ UNCHANGED <<refreshVars, orderVars, profileVars, recoveryVars, deviceVars, listenerVars, helperVars>>
    /\ UNCHANGED <<opsStarted, variant, signOutPending, subscribed, isLoggingOut, watchdog,
                   transitionTimer, lsn>>

\* supabase.auth.signInWithPassword settles
SignInSettles(accepted) ==
    /\ opTask.pc = "signIn"
    /\ IF accepted
          THEN /\ Len(events) < MaxEvents
               /\ session' = opTask.target
               /\ events' = Emit("SIGNED_IN", opTask.target)
               /\ opTask' = [opTask EXCEPT !.pc = "getUser", !.userId = opTask.target]
               /\ UNCHANGED <<user, isLoading, cacheVars, lastOp, invalidateTimer>>
          ELSE /\ OpReturns(AuthResult(NoUser, Lit("Invalid login credentials")))
               /\ UNCHANGED <<session, events>>
    /\ OpFrame

OpGetUser ==
    /\ opTask.pc = "getUser"
    /\ IF AfterGetUser(opTask).pc = "null"
          THEN OpReturns(AuthResult(NoUser, Lit("Failed to load user profile")))
          ELSE /\ opTask' = AfterGetUser(opTask)
               /\ UNCHANGED <<user, isLoading, cacheVars, lastOp, invalidateTimer>>
    /\ UNCHANGED <<session, events>>
    /\ OpFrame

OpSelectSettles(outcome) ==
    /\ opTask.pc = "select"
    /\ outcome = "row" => opTask.userId \in profilesTable
    /\ OpReturns(AuthResult(loadUserProfile(opTask.userId, opTask.authUser, outcome),
                            Lit("Failed to load user profile")))
    /\ UNCHANGED <<session, events>>
    /\ OpFrame

\* Date.now() and the random part at the one guest login of a run
GuestNow == { <<"1">> }
GuestRandom == { <<"x">> }

\* AuthProvider.loginAsGuest (variant 1 only)
loginAsGuestContext(now, rnd) ==
    /\ opsStarted < MaxOps
    /\ opsStarted' = opsStarted + 1
    /\ variant = 1
    /\ opTask = Idle
    /\ user' = IF loginAsGuest(now, rnd).success THEN loginAsGuest(now, rnd).user ELSE user
    /\ lastOp' = OpDone("loginAsGuest", TRUE, None, loginAsGuest(now, rnd).user.id, FALSE)
    /\ UNCHANGED <<cacheVars, refreshVars, orderVars, profileVars, recoveryVars, deviceVars, listenerVars, helperVars>>
    /\ UNCHANGED <<invalidateTimer, variant, session, signOutPending, events, subscribed, isLoading,
                   isLoggingOut, watchdog, transitionTimer, opTask, lsn>>

(* ---- logout ---- *)

\* the AsyncStorage key of a guest's orders: `@onolo_orders_${guestUserId}`
GuestOrdersKey(guestUserId) == <<"@onolo_orders_">> \o guestUserId

\* clearGuestData with the id left out of the key
clearGuestDataNoId(keys, guestUserId) == keys \ {<<"@onolo_orders_">>}

\* clearGuestData of AuthService.logoutGuest, when its removeItem took effect
clearGuestData(keys, guestUserId) == keys \ {GuestOrdersKey(guestUserId)}

\* AsyncStorage after a removal of the guest's orders settled with outcome
StorageAfterRemoval(storage, guestUserId, outcome) ==
    IF outcome = "removed"
       THEN [storage EXCEPT
               !.keys = clearGuestData(storage.keys, guestUserId),
               !.removed = storage.removed \cup
                           (storage.keys \ clearGuestData(storage.keys, guestUserId))]
       ELSE storage

\* AuthProvider.logout up to its await.  The 5 s timer it arms never runs its
\* callback: AuthService.logout settles after 3 s at the latest (logoutGuest
\* after 2 s) and the continuation clears the timer in the same turn.
logout ==
    /\ opsStarted < MaxOps
    /\ opsStarted' = opsStarted + 1
    /\ opTask = Idle
    /\ user # NoUser
    /\ isLoggingOut' = TRUE
    /\ isLoading' = IF variant = 2 THEN TRUE ELSE isLoading
    /\ watchdog' = TRUE
    /\ IF variant = 1 /\ user.isGuest
          THEN /\ opTask' = Task("logout", "guestClear", None, user.id, None, FALSE)
               /\ UNCHANGED signOutPending
          ELSE /\ opTask' = Task("logout", "signOut", None, user.id, None, ~user.isGuest)
               /\ signOutPending' = TRUE
    /\ lastOp' = NoOp
    /\ UNCHANGED <<cacheVars, refreshVars, orderVars, profileVars, recoveryVars, deviceVars, listenerVars, helperVars>>
    /\ UNCHANGED <<invalidateTimer, variant, session, events, subscribed, user, transitionTimer, lsn>>

\* how the provider's signOut can settle (the session is removed, the call
\* resolves with an error, or it rejects) and how the removal of the guest's
\* orders from AsyncStorage can
SignOutOutcomes == {"done", "error", "rejected"}
GuestClearOutcomes == {"removed", "rejected"}

\* Promise.race of a call with a timer that rejects: outcome is how the call
\* settled in time, or "timeout"
RaceSettles(outcome) ==
    IF outcome \in {"rejected", "timeout"} THEN "rejected" ELSE "fulfilled"

\* try { await ... } catch (error) { console.error(...) }
CatchAndLog(settled) ==
    IF settled = "rejected" THEN "fulfilled" ELSE settled

\* AuthService.logout without its catch block
AuthServiceLogoutRethrows(outcome) == RaceSettles(outcome)

\* AuthService.logout: how its promise settles
AuthServiceLogout(outcome) == CatchAndLog(RaceSettles(outcome))

\* AuthService.logoutGuest: how its promise settles
logoutGuest(outcome) == CatchAndLog(RaceSettles(outcome))

\* what logout() leaves in the history: cause is how the provider call or the
\* storage removal went, service how the AuthService promise settled, promise
\* how the promise of AuthProvider.logout settles
LogoutDone(userId, flag, success, cause, service) ==
    [OpDone("logout", success, None, userId, flag) EXCEPT
        !.cause = cause, !.service = service, !.promise = CatchAndLog(service)]

\* AuthService.logout (or logoutGuest) has settled and AuthProvider.logout goes
\* on: after the await, or in its catch block
LogoutServiceReturned(service, cause) ==
    /\ watchdog' = FALSE
    /\ IF service = "fulfilled"
          THEN /\ UNCHANGED <<user, isLoading, isLoggingOut>>
               /\ IF variant = 1
                     THEN /\ opTask' = [opTask EXCEPT !.pc = "delay", !.target = Lit(cause)]
                          /\ UNCHANGED lastOp
                     ELSE /\ opTask' = Idle
                          /\ lastOp' = LogoutDone(opTask.userId, opTask.flag, TRUE, cause, service)
          ELSE /\ user' = IF variant = 1 THEN NoUser ELSE user
               /\ isLoading' = IF variant = 2 THEN FALSE ELSE isLoading
               /\ isLoggingOut' = FALSE
               /\ opTask' = Idle
               /\ lastOp' = LogoutDone(opTask.userId, opTask.flag, variant = 1, cause, service)

\* supabase.auth.signOut settles
SignOutSettles(outcome) ==
    /\ signOutPending
    /\ signOutPending' = FALSE
    /\ IF outcome = "done"
          THEN /\ Len(events) < MaxEvents
               /\ session' = None
               /\ events' = Emit("SIGNED_OUT", None)
          ELSE UNCHANGED <<session, events>>
    /\ IF opTask.kind = "logout" /\ opTask.pc = "signOut"
          THEN LogoutServiceReturned(AuthServiceLogout(outcome), outcome)
          ELSE IF opTask.kind = "register" /\ opTask.pc = "signOut"
                  THEN /\ RegisterReturns(AuthResult(NoUser,
                              IF outcome = "rejected" THEN Lit("An unexpected error occurred")
                                                      ELSE Lit("Failed to create user profile")))
                       /\ UNCHANGED <<watchdog, isLoggingOut>>
                  ELSE UNCHANGED <<watchdog, opTask, lastOp, user, isLoading, isLoggingOut>>
    /\ UNCHANGED <<cacheVars, refreshVars, orderVars, profileVars, recoveryVars, deviceVars, listenerVars, helperVars>>
    /\ UNCHANGED <<invalidateTimer, opsStarted, variant, subscribed, transitionTimer, lsn>>

\* the 3000 ms timer of AuthService.logout rejects the race
LogoutTimeout ==
    /\ opTask.kind = "logout"
    /\ opTask.pc = "signOut"
    /\ LogoutServiceReturned(AuthServiceLogout("timeout"), "timeout")
    /\ UNCHANGED <<cacheVars, refreshVars, orderVars, profileVars, recoveryVars, deviceVars, listenerVars, helperVars>>
    /\ UNCHANGED <<invalidateTimer, opsStarted, variant, session, signOutPending, events, subscribed,
                   transitionTimer, lsn>>

\* AuthService.logoutGuest: the AsyncStorage removal settles
GuestClearSettles(outcome) ==
    /\ opTask.kind = "logout"
    /\ opTask.pc = "guestClear"
    /\ LogoutServiceReturned(logoutGuest(outcome), outcome)
    /\ guestStorage' =
          IF outcome = "timeout"
             THEN [guestStorage EXCEPT !.pending = @ \cup {opTask.userId}]
             ELSE StorageAfterRemoval(guestStorage, opTask.userId, outcome)
    /\ UNCHANGED <<cacheVars, refreshVars, orderVars, profileVars, recoveryVars, listenerVars, helperVars>>
    /\ UNCHANGED <<invalidateTimer, opsStarted, variant, session, signOutPending, events, subscribed,
                   transitionTimer, lsn>>

\* a removal that logoutGuest stopped waiting for after 2000 ms settles
GuestClearSettlesLate(outcome) ==
    /\ \E guestUserId \in guestStorage.pending :
          guestStorage' =
             [StorageAfterRemoval(guestStorage, guestUserId, outcome) EXCEPT
                 !.pending = @ \ {guestUserId}]
    /\ UNCHANGED <<cacheVars, refreshVars, orderVars, authVars, profileVars, recoveryVars,
                   listenerVars, helperVars>>

\* the application stores the current guest's orders under the guest's key
AsyncStorageSetItem ==
    /\ user.isGuest
    /\ opTask = Idle
    /\ GuestOrdersKey(user.id) \notin guestStorage.keys
    /\ guestStorage' = [guestStorage EXCEPT !.keys = @ \cup {GuestOrdersKey(user.id)}]
    /\ UNCHANGED <<cacheVars, refreshVars, orderVars, authVars, profileVars, recoveryVars,
                   listenerVars, helperVars>>

\* variant 1: the 100/200 ms delay is over, the user is cleared and the
\* 200 ms timer that resets isLoggingOut is armed
LogoutDelayElapses ==
    /\ opTask.kind = "logout"
    /\ opTask.pc = "delay"
    /\ user' = NoUser
    /\ transitionTimer' = TRUE
    /\ opTask' = Idle
    /\ lastOp' = LogoutDone(opTask.userId, opTask.flag, TRUE, opTask.target[1], "fulfilled")
    /\ UNCHANGED <<cacheVars, refreshVars, orderVars, profileVars, recoveryVars, deviceVars, listenerVars, helperVars>>
    /\ UNCHANGED <<invalidateTimer, opsStarted, variant, session, signOutPending, events, subscribed, isLoading,
                   isLoggingOut, watchdog, lsn>>

TransitionTimerFires ==
    /\ transitionTimer
    /\ transitionTimer' = FALSE
    /\ isLoggingOut' = FALSE
    /\ UNCHANGED <<cacheVars, refreshVars, orderVars, profileVars, recoveryVars, deviceVars, listenerVars, helperVars>>
    /\ UNCHANGED <<invalidateTimer, opsStarted, variant, session, signOutPending, events, subscribed, user, isLoading,
                   watchdog, opTask, lsn, lastOp>>

(* ---- useUpdateProfile ---- *)

\* the mutation starts for the profile of the signed-in user
useUpdateProfile ==
    /\ opsStarted < MaxOps
    /\ opsStarted' = opsStarted + 1
    /\ opTask = Idle
    /\ user # NoUser
    /\ ~user.isGuest
    /\ opTask' = Task("updateProfile", "checkSession", user.id, None, None, FALSE)
    /\ lastOp' = NoOp
    /\ UNCHANGED <<cacheVars, refreshVars, orderVars, profileVars, recoveryVars, deviceVars, listenerVars, helperVars>>
    /\ UNCHANGED <<invalidateTimer, variant, session, signOutPending, events, subscribed, user,
                   isLoading, isLoggingOut, watchdog, transitionTimer, lsn>>

\* queryClient.invalidateQueries({ queryKey: key }) for one key
InvalidateKey(c, key) ==
    { IF e.key = key THEN [e EXCEPT !.isInvalidated = TRUE] ELSE e : e \in c }

\* mutationFn throws error, then onError of the mutation
UpdateFails(attempted, error) ==
    /\ cache' = InvalidateKey(InvalidateKey(cache, ProfileDetail(opTask.target)), AuthUserKey)
    /\ lastPurge' = NoPurge
    /\ opTask' = Idle
    /\ lastOp' = OpDone("updateProfile", FALSE, error, opTask.target, attempted)

\* mutationFn with the comparison of the ids left out
SessionExists(s, id) == s # None

\* mutationFn: session?.user is there and session.user.id === profileData.id
SessionMatches(s, id) == s # None /\ s = id

\* mutationFn: getSession, and the comparison of its subject with the profile id
OpCheckSession ==
    /\ opTask.pc = "checkSession"
    /\ IF SessionMatches(session, opTask.target)
          THEN /\ opTask' = [opTask EXCEPT !.pc = "update"]
               /\ UNCHANGED <<cacheVars, lastOp>>
          ELSE UpdateFails(FALSE, IF session = None THEN Lit("No active session")
                                                   ELSE Lit("User ID mismatch"))
    /\ UNCHANGED <<user, isLoading, invalidateTimer, session, events>>
    /\ OpFrame

\* simpleUpdateProfile: update(...).eq('id', userId).select('*').single()
\* gives the row when the store answers and exactly one row matched
simpleUpdateProfile(rows, userId, dbOk) == dbOk /\ userId \in rows

\* simpleUpdateProfile settles; on success onSuccess writes the cache and
\* awaits refreshUser.  The history keeps whether the store answered.
UpdateSettles(dbOk) ==
    /\ opTask.pc = "update"
    /\ IF simpleUpdateProfile(profilesTable, opTask.target, dbOk)
          THEN /\ cache' = LET c == SetData(cache, ProfileDetail(opTask.target), Lit("d1"))
                           IN IF GetQueryData(c, AuthUserKey) # None
                                 THEN SetData(c, AuthUserKey, opTask.target)
                                 ELSE c
               /\ lastPurge' = NoPurge
               /\ opTask' = [opTask EXCEPT !.pc = "getSession"]
               /\ UNCHANGED lastOp
          ELSE UpdateFails(dbOk, Lit("Failed to update profile"))
    /\ UNCHANGED <<user, isLoading, invalidateTimer, session, events>>
    /\ OpFrame

\* refreshUser: getCurrentUser's getSession
OpGetSession ==
    /\ opTask.pc = "getSession"
    /\ IF AfterGetSession(opTask).pc = "null"
          THEN OpReturns(AuthResult(NoUser, None))
          ELSE /\ opTask' = AfterGetSession(opTask)
               /\ UNCHANGED <<user, isLoading, cacheVars, lastOp, invalidateTimer>>
    /\ UNCHANGED <<session, events>>
    /\ OpFrame

\* the 50 ms timer of onSuccess
InvalidateTimerFires ==
    /\ invalidateTimer # None
    /\ cache' = InvalidateKey(InvalidateKey(cache, ProfileDetail(invalidateTimer)), AuthUserKey)
    /\ lastPurge' = NoPurge
    /\ invalidateTimer' = None
    /\ UNCHANGED <<refreshVars, orderVars, profileVars, recoveryVars, deviceVars, listenerVars, helperVars>>
    /\ UNCHANGED <<opsStarted, variant, session, signOutPending, events, subscribed, user,
                   isLoading, isLoggingOut, watchdog, transitionTimer, opTask, lsn, lastOp>>

(* ---- register ---- *)

\* how supabase.auth.signUp can settle: a user with a session, an error, or a
\* rejected promise; how the insert into profiles can
SignUpOutcomes == {"session", "error", "rejected"}
InsertOutcomes == {"answered", "unreachable", "rejected"}

\* AuthProvider.register up to its await, for an account that is not the one
\* signed in
register(target) ==
    /\ opsStarted < MaxOps
    /\ opsStarted' = opsStarted + 1
    /\ opTask = Idle
    /\ target # session
    /\ isLoading' = TRUE
    /\ opTask' = Task("register", "signUp", target, None, None, FALSE)
    /\ lastOp' = NoOp
    /\ UNCHANGED <<cacheVars, refreshVars, orderVars, profileVars, recoveryVars, deviceVars, listenerVars, helperVars>>
    /\ UNCHANGED <<invalidateTimer, variant, session, signOutPending, events, subscribed, user,
                   isLoggingOut, watchdog, transitionTimer, lsn>>

\* supabase.auth.signUp settles; the task's flag keeps that the account was
\* created
SignUpSettles(outcome) ==
    /\ opTask.kind = "register"
    /\ opTask.pc = "signUp"
    /\ IF outcome = "session"
          THEN /\ Len(events) < MaxEvents
               /\ session' = opTask.target
               /\ events' = Emit("SIGNED_IN", opTask.target)
               /\ opTask' = [opTask EXCEPT !.pc = "insert", !.flag = TRUE]
               /\ UNCHANGED <<user, isLoading, cacheVars, lastOp, invalidateTimer>>
          ELSE /\ RegisterReturns(AuthResult(NoUser,
                      IF outcome = "rejected" THEN Lit("An unexpected error occurred")
                                              ELSE Lit("Registration failed")))
               /\ UNCHANGED <<session, events>>
    /\ OpFrame

\* supabase.from('profiles').insert({ id, ... }): the store takes the row when
\* it answers and the primary key is free
InsertAccepted(rows, id, dbOk) == dbOk /\ id \notin rows

\* the insert into profiles settles: register goes on to loadUserProfile, to
\* its clean-up signOut (profileError), or to its catch block (rejected)
InsertSettles(outcome) ==
    /\ opTask.kind = "register"
    /\ opTask.pc = "insert"
    /\ IF outcome = "rejected"
          THEN /\ RegisterReturns(AuthResult(NoUser, Lit("An unexpected error occurred")))
               /\ UNCHANGED <<profilesTable, signOutPending>>
          ELSE IF InsertAccepted(profilesTable, opTask.target, outcome = "answered")
                  THEN /\ profilesTable' = profilesTable \cup {opTask.target}
                       /\ opTask' = [opTask EXCEPT !.pc = "getUser", !.userId = opTask.target]
                       /\ UNCHANGED <<signOutPending, user, isLoading, cacheVars, lastOp,
                                      invalidateTimer>>
                  ELSE /\ signOutPending' = TRUE
                       /\ opTask' = [opTask EXCEPT !.pc = "signOut"]
                       /\ UNCHANGED <<profilesTable, user, isLoading, cacheVars, lastOp,
                                      invalidateTimer>>
    /\ UNCHANGED <<refreshVars, orderVars, recoveryVars, deviceVars, listenerVars, helperVars>>
    /\ UNCHANGED <<opsStarted, variant, session, events, subscribed, isLoggingOut, watchdog,
                   transitionTimer, lsn>>

InitAuth ==
    /\ InitCacheVars /\ InitRefreshVars /\ InitOrderVars
    /\ InitProfileVars(Accounts) /\ InitRecoveryVars /\ InitDeviceVars({}) /\ InitListenerVars /\ InitHelperVars(Unused, Unused, Unused)
    /\ \E v \in {1, 2}, s \in {None, UserA}, answered \in BOOLEAN :
          (v = 1 => answered) /\ InitAuthVars(v, s, answered)

NextAuth ==
    \/ DeliverEvent
    \/ LsnGetSession
    \/ LsnGetUser
    \/ \E outcome \in ProfileOutcomes : LsnSelectSettles(outcome)
    \/ TokenRefreshed
    \/ \E target \in Accounts : login(target)
    \/ \E target \in Accounts : useLogin(target)
    \/ \E accepted \in BOOLEAN : SignInSettles(accepted)
    \/ OpGetUser
    \/ \E outcome \in ProfileOutcomes : OpSelectSettles(outcome)
    \/ \E now \in GuestNow, rnd \in GuestRandom : loginAsGuestContext(now, rnd)
    \/ logout
    \/ \E outcome \in SignOutOutcomes : SignOutSettles(outcome)
    \/ LogoutTimeout
    \/ \E outcome \in GuestClearOutcomes \cup {"timeout"} : GuestClearSettles(outcome)
    \/ LogoutDelayElapses
    \/ TransitionTimerFires
    \/ useUpdateProfile
    \/ OpCheckSession
    \/ \E dbOk \in BOOLEAN : UpdateSettles(dbOk)
    \/ OpGetSession
    \/ InvalidateTimerFires

SpecAuth == InitAuth /\ [][NextAuth]_vars

(***************************************************************************)
(* Guest sessions of variant 1 and the device's storage.                   *)
(***************************************************************************)
\* the orders key an earlier guest session left on the device
EarlierGuestKey == GuestOrdersKey(GuestUser(<<"0">>, <<"w">>).id)

InitGuest ==
    /\ InitCacheVars /\ InitRefreshVars /\ InitOrderVars
    /\ InitProfileVars(Accounts) /\ InitRecoveryVars
    /\ InitDeviceVars({EarlierGuestKey}) /\ InitListenerVars /\ InitHelperVars(Unused, Unused, Unused)
    /\ \E s \in {None, UserA} : InitAuthVars(1, s, TRUE)

NextGuest ==
    \/ DeliverEvent
    \/ LsnGetSession
    \/ LsnGetUser
    \/ \E outcome \in ProfileOutcomes : LsnSelectSettles(outcome)
    \/ \E now \in GuestNow, rnd \in GuestRandom : loginAsGuestContext(now, rnd)
    \/ AsyncStorageSetItem
    \/ logout
    \/ \E outcome \in SignOutOutcomes : SignOutSettles(outcome)
    \/ LogoutTimeout
    \/ \E outcome \in GuestClearOutcomes \cup {"timeout"} : GuestClearSettles(outcome)
    \/ \E outcome \in GuestClearOutcomes : GuestClearSettlesLate(outcome)
    \/ LogoutDelayElapses
    \/ TransitionTimerFires

SpecGuest == InitGuest /\ [][NextGuest]_vars

(***************************************************************************)
(* Listeners: createAuthStateHandler's startListening and stopListening,   *)
(* and the AuthProvider's subscription when it is unmounted.               *)
(***************************************************************************)
\* supabase.auth.onAuthStateChange(callback) returns { data: { subscription } },
\* kept as the path to the subscription inside the returned object
OnAuthStateChange == <<"data", "subscription">>

\* x.unsubscribe(): only the subscription itself has the method; calling it
\* on any other object throws a TypeError
Unsubscribe(x) == IF x = <<"subscription">> THEN "unsubscribed" ELSE "TypeError"

HandlerCall(name, outcome) == [name |-> name, outcome |-> outcome]

startListening ==
    /\ Len(handlerLog) < MaxHandlerCalls
    /\ IF authStateSubscription # None /\ Unsubscribe(authStateSubscription) = "TypeError"
          THEN /\ handlerLog' = Append(handlerLog, HandlerCall("startListening", "threw"))
               /\ UNCHANGED <<authStateSubscription, handlerListeners>>
          ELSE /\ handlerListeners' = IF authStateSubscription # None
                                         THEN handlerListeners
                                         ELSE handlerListeners + 1
               /\ authStateSubscription' = OnAuthStateChange
               /\ handlerLog' = Append(handlerLog, HandlerCall("startListening", "returned"))
    /\ UNCHANGED mounted
    /\ UNCHANGED <<cacheVars, refreshVars, orderVars, authVars, profileVars, recoveryVars,
                   deviceVars, helperVars>>

stopListening ==
    /\ Len(handlerLog) < MaxHandlerCalls
    /\ IF authStateSubscription = None
          THEN /\ handlerLog' = Append(handlerLog, HandlerCall("stopListening", "returned"))
               /\ UNCHANGED <<authStateSubscription, handlerListeners>>
          ELSE IF Unsubscribe(authStateSubscription) = "TypeError"
                  THEN /\ handlerLog' = Append(handlerLog, HandlerCall("stopListening", "threw"))
                       /\ UNCHANGED <<authStateSubscription, handlerListeners>>
                  ELSE /\ handlerListeners' = handlerListeners - 1
                       /\ authStateSubscription' = None
                       /\ handlerLog' = Append(handlerLog, HandlerCall("stopListening", "returned"))
    /\ UNCHANGED mounted
    /\ UNCHANGED <<cacheVars, refreshVars, orderVars, authVars, profileVars, recoveryVars,
                   deviceVars, helperVars>>

\* the AuthProvider is unmounted: the effect's cleanup runs and unsubscribes
\* what authSubscriptionRef (variant 2: unsubscribe) holds.  Variant 1 holds
\* nothing there until initializeAuth is past its getCurrentUser; variant 2
\* subscribes before its first await.
Unmount ==
    /\ mounted
    /\ mounted' = FALSE
    /\ subscribed' = FALSE
    /\ UNCHANGED <<authStateSubscription, handlerListeners, handlerLog>>
    /\ UNCHANGED <<cacheVars, refreshVars, orderVars, profileVars, recoveryVars, deviceVars,
                   helperVars>>
    /\ UNCHANGED <<invalidateTimer, opsStarted, variant, session, signOutPending, events, user,
                   isLoading, isLoggingOut, watchdog, transitionTimer, opTask, lsn, lastOp>>

InitListeners ==
    /\ InitCacheVars /\ InitRefreshVars /\ InitOrderVars
    /\ InitProfileVars(Accounts) /\ InitRecoveryVars
    /\ InitDeviceVars({}) /\ InitListenerVars /\ InitHelperVars(Unused, Unused, Unused)
    /\ \E v \in {1, 2}, s \in {None, UserA} : InitAuthVars(v, s, FALSE)

NextListeners ==
    \/ LsnGetSession
    \/ LsnGetUser
    \/ \E outcome \in ProfileOutcomes : LsnSelectSettles(outcome)
    \/ Unmount
    \/ startListening
    \/ stopListening

SpecListeners == InitListeners /\ [][NextListeners]_vars

(***************************************************************************)
(* The identity objects AuthService builds: loadUserProfile's three return *)
(* statements, register's fallbackUser and createFallbackProfile.  An      *)
(* email is kept as <<local part, "@", domain>>, the empty string as << >>.*)
(***************************************************************************)
\* the object built from the auth user alone (CORS error, or no profile row)
AuthDataUser(authUser) ==
    [id |-> authUser.id,
     name |-> IF authUser.name # << >> THEN authUser.name
              ELSE IF authUser.email # << >> THEN <<authUser.email[1]>> ELSE <<"User">>,
     email |-> authUser.email,
     phone |-> << >>,
     address |-> << >>,
     isGuest |-> FALSE]

\* the object built from the fetched profile row
ProfileRowUser(profile, authUser) ==
    [id |-> profile.id,
     name |-> IF profile.first_name \o profile.last_name # << >>
                 THEN IF profile.first_name # << >> /\ profile.last_name # << >>
                         THEN profile.first_name \o <<" ">> \o profile.last_name
                         ELSE profile.first_name \o profile.last_name
                 ELSE IF authUser.email # << >> THEN <<authUser.email[1]>> ELSE <<"User">>,
     email |-> authUser.email,
     phone |-> profile.phone,
     address |-> << >>,
     isGuest |-> FALSE]

\* register's fallbackUser, built when loadUserProfile returned null
fallbackUser(id, request) ==
    [id |-> id,
     name |-> request.name,
     email |-> request.email,
     phone |-> << >>,
     address |-> << >>,
     isGuest |-> FALSE]

\* createFallbackProfile, the one object with the flag; no code calls it
createFallbackProfile(userId) ==
    [id |-> userId,
     name |-> <<"User">>,
     email |-> << >>,
     phone |-> << >>,
     address |-> << >>,
     isGuest |-> FALSE,
     _fallback |-> TRUE]

\* loadUserProfile(userId) returns: authUser is what getUser returned, profile
\* the row with that id, outcome what the select returned
LoadUserProfileReturns(userId, authUser, profile, outcome) ==
    /\ built' = [call |-> "loadUserProfile", userId |-> userId, authUser |-> authUser,
                 profile |-> IF outcome = "row" THEN profile ELSE [id |-> None],
                 outcome |-> outcome,
                 origin |-> IF outcome = "row" THEN "row"
                            ELSE IF outcome = "error" THEN "null" ELSE "auth",
                 user |-> IF outcome = "row" THEN ProfileRowUser(profile, authUser)
                          ELSE IF outcome = "error" THEN NoUser
                          ELSE AuthDataUser(authUser)]
    /\ UNCHANGED <<retry, timeoutCall>>
    /\ UNCHANGED <<cacheVars, refreshVars, orderVars, authVars, profileVars, recoveryVars,
                   deviceVars, listenerVars>>

\* register goes on after a loadUserProfile that returned null
RegisterUsesFallback(id, request) ==
    /\ built.call = "loadUserProfile"
    /\ built.origin = "null"
    /\ built' = [call |-> "register", userId |-> id, authUser |-> built.authUser,
                 profile |-> [id |-> None], outcome |-> built.outcome,
                 origin |-> "auth",
                 user |-> fallbackUser(id, request)]
    /\ UNCHANGED <<retry, timeoutCall>>
    /\ UNCHANGED <<cacheVars, refreshVars, orderVars, authVars, profileVars, recoveryVars,
                   deviceVars, listenerVars>>

InitProfile ==
    /\ InitCacheVars /\ InitRefreshVars /\ InitOrderVars
    /\ InitProfileVars(Accounts) /\ InitRecoveryVars
    /\ InitDeviceVars({}) /\ InitListenerVars
    /\ InitAuthVars(1, None, TRUE)
    /\ InitHelperVars([call |-> "none"], Unused, Unused)

NextProfile ==
    \/ \E userId \in Accounts, outcome \in ProfileOutcomes,
          authUser \in [id : Accounts, name : {<< >>, <<"M">>},
                        email : {<< >>, <<"m", "@", "x">>}] :
          \E profile \in [id : {userId}, first_name : {<< >>, <<"F">>},
                          last_name : {<< >>, <<"L">>}, phone : {<< >>, <<"0">>}] :
             LoadUserProfileReturns(userId, authUser, profile, outcome)
    \/ \E id \in Accounts, request \in [name : {<<"N">>}, email : {<<"m", "@", "x">>}] :
          RegisterUsesFallback(id, request)

SpecProfile == InitProfile /\ [][NextProfile]_vars

(***************************************************************************)
(* retryRequest and supabaseRequest.  An error message is kept as the set  *)
(* of phrases it includes.                                                 *)
(***************************************************************************)
\* handleNetworkError(error, context): the object it returns
handleNetworkError(error, platform) ==
    [message |-> IF platform = "web"
                    THEN {"CORS configuration required"}
                    ELSE {"Network connection failed"},
     isNetworkError |-> TRUE,
     isCorsError |-> /\ platform = "web"
                     /\ error.message \cap {"Failed to fetch", "Network request failed"} # {},
     originalError |-> error.message]

\* supabaseRequest(operation): what it resolves with once retryRequest(operation)
\* has settled
supabaseRequest(settled, platform) ==
    IF settled.pc = "threw"
       THEN [data |-> "null",
             error |-> [message |-> handleNetworkError(settled.result, platform).message,
                        isNetworkError |-> handleNetworkError(settled.result, platform).isNetworkError,
                        isCorsError |-> handleNetworkError(settled.result, platform).isCorsError,
                        originalError |-> handleNetworkError(settled.result, platform).originalError]]
       ELSE settled.result

\* the delay left unchanged between attempts
NextDelayConstant(delay) == delay

\* delay *= 2
NextDelay(delay) == delay * 2

\* requestFn() settles: fulfilled is whether it resolved, message what the
\* error it rejected with says
RequestSettles(fulfilled, message) ==
    /\ retry.pc = "calling"
    /\ retry' =
          IF fulfilled
             THEN [retry EXCEPT !.pc = "returned", !.calls = @ + 1,
                                !.result = [data |-> "rows", error |-> "null"]]
             ELSE IF \/ retry.attempt = retry.maxRetries
                     \/ ("Failed to fetch" \in message /\ retry.platform = "web")
                     THEN [retry EXCEPT !.pc = "threw", !.calls = @ + 1, !.failures = @ + 1,
                                        !.result = handleNetworkError([message |-> message],
                                                                     retry.platform)]
                     ELSE [retry EXCEPT !.pc = "waiting", !.calls = @ + 1, !.failures = @ + 1]
    /\ UNCHANGED <<built, timeoutCall>>
    /\ UNCHANGED <<cacheVars, refreshVars, orderVars, authVars, profileVars, recoveryVars,
                   deviceVars, listenerVars>>

\* the setTimeout(resolve, delay) between two attempts fires
RetryDelayElapses ==
    /\ retry.pc = "waiting"
    /\ retry' = [retry EXCEPT !.pc = "calling",
                              !.waits = Append(@, retry.delay),
                              !.delay = NextDelay(@),
                              !.attempt = @ + 1]
    /\ UNCHANGED <<built, timeoutCall>>
    /\ UNCHANGED <<cacheVars, refreshVars, orderVars, authVars, profileVars, recoveryVars,
                   deviceVars, listenerVars>>

\* retryRequest(requestFn, maxRetries, delay) has been called and is at its
\* first attempt, or past its loop when maxRetries is 0
InitRetry ==
    /\ InitCacheVars /\ InitRefreshVars /\ InitOrderVars
    /\ InitProfileVars(Accounts) /\ InitRecoveryVars
    /\ InitDeviceVars({}) /\ InitListenerVars
    /\ InitAuthVars(1, None, TRUE)
    /\ \E maxRetries \in 0..MaxRetriesTried, delay \in {DefaultDelay, 250},
          platform \in {"web", "native"} :
          InitHelperVars(Unused,
                         [pc |-> IF maxRetries >= 1 THEN "calling" ELSE "returned",
                          maxRetries |-> maxRetries, delay0 |-> delay, delay |-> delay,
                          attempt |-> 1, calls |-> 0, failures |-> 0, waits |-> << >>,
                          platform |-> platform, result |-> "undefined"],
                         Unused)

NextRetry ==
    \/ \E fulfilled \in BOOLEAN,
          message \in {{"Failed to fetch"}, {"Network request failed"}, {"timeout"}} :
          RequestSettles(fulfilled, message)
    \/ RetryDelayElapses

SpecRetry == InitRetry /\ [][NextRetry]_vars

(***************************************************************************)
(* withAbortTimeout(ms, run).  Time is counted in seconds.                 *)
(***************************************************************************)
\* TIMEOUTS: READ, WRITE, AUTH and QUICK, in seconds
TIMEOUTS == {8, 15, 12, 5}

\* a second passes while the promise of run is awaited
Tick ==
    /\ timeoutCall.promise = "pending"
    /\ timeoutCall.clock < timeoutCall.ms
    /\ timeoutCall' = [timeoutCall EXCEPT !.clock = @ + 1]
    /\ UNCHANGED <<built, retry>>
    /\ UNCHANGED <<cacheVars, refreshVars, orderVars, authVars, profileVars, recoveryVars,
                   deviceVars, listenerVars>>

\* the setTimeout callback: controller.abort('timeout').  A run that listens
\* to the signal rejects, the catch block finds signal.aborted and throws the
\* timeout error; nothing else in withAbortTimeout waits for the timer.
TimerFires ==
    /\ timeoutCall.timer = "armed"
    /\ timeoutCall.clock = timeoutCall.ms
    /\ timeoutCall' = [timeoutCall EXCEPT
                          !.timer = "fired",
                          !.aborted = TRUE,
                          !.promise = IF timeoutCall.run = "honoursAbort"
                                         THEN "rejectedTimeout" ELSE @]
    /\ UNCHANGED <<built, retry>>
    /\ UNCHANGED <<cacheVars, refreshVars, orderVars, authVars, profileVars, recoveryVars,
                   deviceVars, listenerVars>>

\* the promise of run settles by itself: return await, or the catch block,
\* and in both cases finally { clearTimeout(timeoutId) }
RunSettles(resolves) ==
    /\ timeoutCall.promise = "pending"
    /\ timeoutCall.run # "never"
    /\ timeoutCall' = [timeoutCall EXCEPT
                          !.promise = IF resolves THEN "resolved"
                                      ELSE IF timeoutCall.aborted THEN "rejectedTimeout"
                                      ELSE "rejectedError",
                          !.timer = IF @ = "armed" THEN "cleared" ELSE @]
    /\ UNCHANGED <<built, retry>>
    /\ UNCHANGED <<cacheVars, refreshVars, orderVars, authVars, profileVars, recoveryVars,
                   deviceVars, listenerVars>>

\* withAbortTimeout(ms, run) has armed its timer and called run, which
\* settles by itself at some time and ignores the signal ("settles"), does so
\* unless the signal aborts it first ("honoursAbort"), or ignores the signal
\* and never settles ("never")
InitTimeout ==
    /\ InitCacheVars /\ InitRefreshVars /\ InitOrderVars
    /\ InitProfileVars(Accounts) /\ InitRecoveryVars
    /\ InitDeviceVars({}) /\ InitListenerVars
    /\ InitAuthVars(1, None, TRUE)
    /\ \E ms \in TIMEOUTS, run \in {"settles", "honoursAbort", "never"} :
          InitHelperVars(Unused, Unused,
                         [ms |-> ms, run |-> run, clock |-> 0, timer |-> "armed",
                          aborted |-> FALSE, promise |-> "pending"])

NextTimeout ==
    \/ Tick
    \/ TimerFires
    \/ \E resolves \in BOOLEAN : RunSettles(resolves)

SpecTimeout == InitTimeout /\ [][NextTimeout]_vars

(***************************************************************************)
(* Registration and profile writes, with any set of rows in profiles.      *)
(***************************************************************************)
InitRegister ==
    /\ InitCacheVars /\ InitRefreshVars /\ InitOrderVars /\ InitRecoveryVars /\ InitDeviceVars({}) /\ InitListenerVars /\ InitHelperVars(Unused, Unused, Unused)
    /\ \E v \in {1, 2}, s \in {None, UserA}, rows \in SUBSET Accounts :
          InitAuthVars(v, s, TRUE) /\ InitProfileVars(rows)

NextRegister ==
    \/ DeliverEvent
    \/ LsnGetSession
    \/ LsnGetUser
    \/ \E outcome \in ProfileOutcomes : LsnSelectSettles(outcome)
    \/ \E target \in Accounts : register(target)
    \/ \E outcome \in SignUpOutcomes : SignUpSettles(outcome)
    \/ \E outcome \in InsertOutcomes : InsertSettles(outcome)
    \/ \E outcome \in SignOutOutcomes : SignOutSettles(outcome)
    \/ OpGetSession
    \/ OpGetUser
    \/ \E outcome \in ProfileOutcomes : OpSelectSettles(outcome)
    \/ useUpdateProfile
    \/ OpCheckSession
    \/ \E dbOk \in BOOLEAN : UpdateSettles(dbOk)
    \/ InvalidateTimerFires

SpecRegister == InitRegister /\ [][NextRegister]_vars

(***************************************************************************)
(* handleCorruptedAuth (lib/supabase), on a cache that queries fill and    *)
(* with the cache's auth state handler listening.                          *)
(***************************************************************************)
\* supabase.auth.signOut({ scope: 'local' }) without the .catch chained to it
LocalSignOutNoCatch(outcome) ==
    IF outcome = "rejected" THEN "rejected" ELSE "fulfilled"

\* supabase.auth.signOut({ scope: 'local' }).catch(log): how the awaited
\* promise settles
LocalSignOut(outcome) ==
    CatchAndLog(IF outcome = "rejected" THEN "rejected" ELSE "fulfilled")

\* the purge step for a user id, None when the id is unknown
PurgeStep(userId) == IF userId # None THEN "clearUserScopedCache" ELSE "clear"

\* handleCorruptedAuth up to its await: the local sign-out is called
handleCorruptedAuth(userId) ==
    /\ corruptTask.pc \in {"idle", "done"}
    /\ ~signOutPending
    /\ signOutPending' = TRUE
    /\ corruptTask' = [pc |-> "signOut", userId |-> userId, promise |-> "pending"]
    /\ corruptLog' = << "signOut" >>
    /\ UNCHANGED <<cacheVars, refreshVars, orderVars, profileVars, deviceVars, listenerVars, helperVars>>
    /\ UNCHANGED <<variant, session, events, subscribed, user, isLoading, isLoggingOut, watchdog,
                   transitionTimer, invalidateTimer, opTask, lsn, lastOp, opsStarted>>

\* the local sign-out settles and handleCorruptedAuth runs to its end: the
\* purge, then navigate; a step that throws goes to the catch block, which
\* calls navigate (again).  purgeOk, navOk and navAgainOk say whether the
\* purge, navigate and the catch block's navigate return normally.
CorruptSignOutSettles(outcome, purgeOk, navOk, navAgainOk) ==
    /\ corruptTask.pc = "signOut"
    /\ signOutPending
    /\ signOutPending' = FALSE
    /\ IF outcome = "done"
          THEN /\ Len(events) < MaxEvents
               /\ session' = None
               /\ events' = Emit("SIGNED_OUT", None)
          ELSE UNCHANGED <<session, events>>
    /\ IF LocalSignOut(outcome) = "rejected"
          THEN /\ UNCHANGED cacheVars
               /\ corruptLog' = corruptLog \o << "navigate" >>
               /\ corruptTask' = [corruptTask EXCEPT !.pc = "done",
                                     !.promise = IF navAgainOk THEN "fulfilled" ELSE "rejected"]
          ELSE IF ~purgeOk
          THEN /\ UNCHANGED cacheVars
               /\ corruptLog' = corruptLog \o << PurgeStep(corruptTask.userId), "navigate" >>
               /\ corruptTask' = [corruptTask EXCEPT !.pc = "done",
                                     !.promise = IF navAgainOk THEN "fulfilled" ELSE "rejected"]
          ELSE /\ cache' = IF corruptTask.userId # None
                              THEN RemoveUserScoped(cache, corruptTask.userId)
                              ELSE {}
               /\ lastPurge' = IF corruptTask.userId # None
                                  THEN [user |-> corruptTask.userId, before |-> cache]
                                  ELSE NoPurge
               /\ corruptLog' = corruptLog \o
                      ( IF navOk THEN << PurgeStep(corruptTask.userId), "navigate" >>
                                 ELSE << PurgeStep(corruptTask.userId), "navigate", "navigate" >> )
               /\ corruptTask' = [corruptTask EXCEPT !.pc = "done",
                                     !.promise = IF navOk \/ navAgainOk THEN "fulfilled"
                                                                        ELSE "rejected"]
    /\ UNCHANGED <<refreshVars, orderVars, profileVars, deviceVars, listenerVars, helperVars>>
    /\ UNCHANGED <<variant, subscribed, user, isLoading, isLoggingOut, watchdog,
                   transitionTimer, invalidateTimer, opTask, lsn, lastOp, opsStarted>>

InitCorrupt ==
    /\ InitCacheVars /\ InitRefreshVars /\ InitOrderVars
    /\ InitProfileVars(Accounts) /\ InitRecoveryVars /\ InitDeviceVars({}) /\ InitListenerVars /\ InitHelperVars(Unused, Unused, Unused)
    /\ \E s \in {None, UserA} : InitAuthVars(1, s, TRUE)

\* the queries that fill the cache here
CorruptKeys == { AuthUserKey, ProfileDetail(UserA), OrdersByUser(UserB) }

NextCorrupt ==
    \/ \E key \in CorruptKeys : SetQueryData(key, UserA)
    \/ \E userId \in Accounts \cup {None} : handleCorruptedAuth(userId)
    \/ \E outcome \in SignOutOutcomes, purgeOk \in BOOLEAN, navOk \in BOOLEAN,
          navAgainOk \in BOOLEAN :
            CorruptSignOutSettles(outcome, purgeOk, navOk, navAgainOk)
    \/ DeliverEvent

SpecCorrupt == InitCorrupt /\ [][NextCorrupt]_vars

\* nothing is in progress: no operation, no callback run, no undelivered
\* event, no armed timer
AtRest ==
    /\ opTask = Idle
    /\ lsn = Idle
    /\ events = << >>
    /\ ~watchdog
    /\ ~transitionTimer
    /\ invalidateTimer = None

\* C4: once logout() from an authenticated identity has finished and nothing is
\* in progress, the identity is null and isLoggingOut and isLoading are false,
\* also while the provider's signOut has not settled and no SIGNED_OUT was
\* emitted.
C4_LogoutAlwaysEndsAnonymous ==
    (AtRest /\ lastOp.kind = "logout" /\ lastOp.flag /\ signOutPending) =>
        /\ user = NoUser
        /\ ~isLoggingOut
        /\ ~isLoading

\* C5: once logout() from an identity authenticated as A has finished with the
\* identity cleared and nothing is in progress, the cache holds no profile
\* entry and no orders entry of A, also on the forced timeout (the provider's
\* signOut has not settled) after a sign-in through AuthProvider.login (which
\* leaves no ['auth', 'user'] entry).
C5_LogoutPurgesCache ==
    ( /\ AtRest
      /\ lastOp.kind = "logout"
      /\ lastOp.flag
      /\ user = NoUser
      /\ signOutPending
      /\ GetQueryData(cache, AuthUserKey) = None ) =>
        /\ ProfileDetail(lastOp.userId) \notin CacheKeys(cache)
        /\ OrdersByUser(lastOp.userId) \notin CacheKeys(cache)

\* C6: once login() called from the anonymous state has returned with the
\* provider rejecting the credentials, and nothing is in progress, the caller
\* has an invalid-credentials failure, the identity is null and isLoading is
\* false.
C6_FailedLoginLeavesAnonymous ==
    ( /\ AtRest
      /\ lastOp.kind = "login"
      /\ lastOp.flag
      /\ lastOp.error = Lit("Invalid login credentials") ) =>
        /\ ~lastOp.success
        /\ user = NoUser
        /\ ~isLoading

\* C7: once a login has succeeded and its sign-in event has been handled, the
\* cache holds a profile entry keyed by the signed-in user's id.
C7_LoginPrefetchesProfile ==
    ( /\ AtRest
      /\ lastOp.kind \in {"login", "useLogin"}
      /\ lastOp.success
      /\ session = lastOp.userId ) =>
        ProfileDetail(lastOp.userId) \in CacheKeys(cache)

\* C8: when nothing is in progress the identity is null, a guest, or an
\* authenticated identity whose id and email belong to one account.
C8_SingleIdentityAtRest ==
    AtRest =>
        \/ user = NoUser
        \/ user.isGuest
        \/ user.email = EmailOf(user.id)

\* C11: when nothing is in progress and the identity is a guest, the provider
\* holds no session.
C11_GuestHasNoSession ==
    (AtRest /\ user.isGuest) => session = None

\* C12: a logout() that has returned was given a fulfilled promise by
\* AuthService.logout or AuthService.logoutGuest and settles its own promise
\* fulfilled, whether the provider's signOut or the storage removal succeeded,
\* failed, rejected or timed out.
C12_LogoutNeverRejects ==
    lastOp.kind = "logout" =>
        /\ lastOp.service = "fulfilled"
        /\ lastOp.promise = "fulfilled"

C12_Witness ==
    /\ lastOp.kind = "logout"
    /\ lastOp.cause \in {"rejected", "timeout"}
    /\ AtRest

\* C14: a login whose sign-in the provider accepted, and whose session is
\* still there when everything has settled, succeeded: a profile fetch that
\* fails or finds no row gives the fallback identity, not a failure.
C14_ProfileFailureDegrades ==
    ( /\ AtRest
      /\ lastOp.kind = "login"
      /\ lastOp.error # Lit("Invalid login credentials")
      /\ session = lastOp.userId ) =>
        lastOp.success

\* C15: once the startup of AuthProvider has nothing left to run (no event is
\* waiting, no callback run or operation is in progress, no operation was ever
\* started), the provider is subscribed and isLoading is false, also when the
\* provider sent no INITIAL_SESSION.
C15_StartupResolvesLoading ==
    ( /\ opsStarted = 0
      /\ opTask = Idle
      /\ lsn = Idle
      /\ events = << >> ) =>
        /\ subscribed
        /\ ~isLoading

\* C16: when TOKEN_REFRESHED is delivered to AuthProvider's callback while an
\* authenticated identity is held, the callback starts to re-derive the
\* identity (its getCurrentUser call reads the session).
C16_TokenRefreshRederives ==
    [][ ( /\ events # << >>
          /\ Head(events).type = "TOKEN_REFRESHED"
          /\ events' = Tail(events)
          /\ subscribed
          /\ user # NoUser
          /\ ~user.isGuest ) =>
            lsn'.pc = "getSession" ]_vars

\* C20: once SIGNED_OUT has been handled (the provider holds no session and no
\* event is waiting), a run of AuthProvider's callback that an earlier event
\* started and that finishes now does not set an identity.
C20_EventsAppliedInOrder ==
    [][ ( /\ subscribed
          /\ lsn.kind \in {"signedIn1", "signedIn2", "event"}
          /\ lsn.pc = "select"
          /\ lsn' # lsn
          /\ session = None
          /\ events = << >>
          /\ user = NoUser ) =>
            user' = NoUser ]_vars

\* C13: once register has returned its failure for a failed profile creation
\* (the account was created, the insert into profiles gave an error) and
\* nothing is in progress, the provider holds no session of that account.
C13_FailedRegisterSignsOut ==
    ( /\ AtRest
      /\ lastOp.kind = "register"
      /\ lastOp.flag
      /\ lastOp.error = Lit("Failed to create user profile") ) =>
        session # lastOp.userId

\* C17: a profile update that reached simpleUpdateProfile with the signed-in
\* user's id, and that the store answered, succeeded, whether or not the row
\* existed.
C17_ProfileWriteIsUpsert ==
    (lastOp.kind = "updateProfile" /\ lastOp.flag) => lastOp.success

\* C18: a run of handleCorruptedAuth that has ended settled its promise
\* fulfilled, whatever failed inside it.
C18_CorruptHandlerNeverRejects ==
    corruptTask.pc = "done" => corruptTask.promise = "fulfilled"

\* C19: a run of handleCorruptedAuth calls the local sign-out first; when it
\* has ended it has then made the purge call (clearUserScopedCache when the
\* user id is known, clear when it is not) and after it called navigate, also
\* when the sign-out or the purge failed.
C19_CorruptHandlerStepOrder ==
    /\ corruptTask.pc = "signOut" => corruptLog = << "signOut" >>
    /\ corruptTask.pc = "done" =>
          /\ Len(corruptLog) \in {3, 4}
          /\ corruptLog[1] = "signOut"
          /\ corruptLog[2] = PurgeStep(corruptTask.userId)
          /\ \A i \in 3..Len(corruptLog) : corruptLog[i] = "navigate"

C19_Witness ==
    /\ corruptTask.pc = "done"
    /\ corruptTask.userId = UserA
    /\ session = UserA
    /\ cache # {}
    /\ corruptLog = << "signOut", "clearUserScopedCache", "navigate" >>

\* C21: an auth event other than the start-up one that is delivered while an
\* explicit login or register call is in flight leaves isLoading true: the
\* flag is held until the call itself settles
C21_LoadingHeldWhileInFlight ==
    [][(/\ opTask.kind \in {"login", "register", "registerVerify"}
        /\ opTask'.kind = opTask.kind
        /\ isLoading
        /\ events # << >>
        /\ Head(events).type # "INITIAL_SESSION"
        /\ events' = Tail(events))
       => isLoading']_vars

C23_AtMostOneListener ==
    /\ handlerListeners <= 1
    /\ (handlerLog # << >> /\ handlerLog[Len(handlerLog)].name = "stopListening")
          => handlerListeners = 0
    /\ (~mounted /\ lsn = Idle) => ~subscribed

\* C24: an identity object built from auth-level data (the profile fetch
\* failed or found no row) carries the fallback flag, set to true as
\* createFallbackProfile sets it, and one built from a fetched row does not
C24_FallbackFlagMarksAuthData ==
    built.call # "none" /\ built.origin # "null"
       => (built.origin = "auth"
             <=> /\ "_fallback" \in DOMAIN built.user
                 /\ built.user._fallback = createFallbackProfile(built.user.id)._fallback)

\* C25: retryRequest calls requestFn at most maxRetries times, returns the
\* first success, waits delay, 2*delay, 4*delay, ... between consecutive
\* attempts and throws after the last failure, which supabaseRequest turns
\* into { data: null, error }; every step is one more call or one more wait,
\* so the run ends
C25_RetryBoundedBackoff ==
    /\ [](/\ retry.calls <= retry.maxRetries
          /\ \A k \in 1..Len(retry.waits) : retry.waits[k] = retry.delay0 * 2^(k - 1)
          /\ retry.pc = "calling"
                => Len(retry.waits) = retry.calls /\ retry.failures = retry.calls
          /\ retry.pc = "waiting"
                => Len(retry.waits) = retry.calls - 1 /\ retry.failures = retry.calls
          /\ (retry.pc = "returned" /\ retry.calls > 0)
                => /\ retry.failures = retry.calls - 1
                   /\ Len(retry.waits) = retry.calls - 1
                   /\ supabaseRequest(retry, retry.platform) = [data |-> "rows", error |-> "null"]
          /\ retry.pc = "threw"
                => /\ retry.failures = retry.calls
                   /\ Len(retry.waits) = retry.calls - 1
                   /\ \/ retry.calls = retry.maxRetries
                      \/ ("Failed to fetch" \in retry.result.originalError
                             /\ retry.platform = "web")
                   /\ supabaseRequest(retry, retry.platform).data = "null"
                   /\ supabaseRequest(retry, retry.platform).error.isNetworkError)
    /\ [][2 * retry'.calls + Len(retry'.waits) > 2 * retry.calls + Len(retry.waits)]_vars

\* the fourth attempt succeeded after waits of delay, 2*delay and 4*delay
C25_Witness ==
    /\ retry.pc = "returned"
    /\ retry.calls = 4
    /\ retry.waits = <<DefaultDelay, 2 * DefaultDelay, 4 * DefaultDelay>>

\* C26: once ms have elapsed and the timer has fired, the promise of
\* withAbortTimeout is rejected with the timeout error, whatever run does;
\* and the timer is not left armed once the promise has settled
C26_TimeoutAlwaysSettles ==
    /\ timeoutCall.timer = "fired" => timeoutCall.promise = "rejectedTimeout"
    /\ timeoutCall.promise # "pending" => timeoutCall.timer # "armed"

\* C27: a SIGNED_OUT event that is delivered while the identity is a guest
\* identity leaves that identity as it is
C27_SignedOutSparesGuest ==
    [][(/\ user.isGuest
        /\ events # << >>
        /\ Head(events).type = "SIGNED_OUT"
        /\ events' = Tail(events))
       => user' = user]_vars

\* C28: once logout() has returned after the provider's sign-out was done
\* and the identity is null, no step that finishes work started before then
\* sets the identity back to the user that was logged out
C28_NoResurrectionAfterLogout ==
    [][(/\ lastOp.kind = "logout"
        /\ lastOp.cause = "done"
        /\ opTask = Idle
        /\ user = NoUser)
       => user'.id # lastOp.userId]_vars

\* C29: when nothing is in progress after a logout has returned, or after a
\* login that started with no identity and no session has, the identity is an
\* authenticated, non-guest one exactly when the provider holds a session, and
\* then both have the same id; so after a failed login and after a logout
\* that gave up on its timeout the provider holds no session
C29_IdentityMatchesSession ==
    (AtRest /\ (lastOp.kind = "logout" \/ (lastOp.kind = "login" /\ lastOp.flag))) =>
        /\ (user # NoUser /\ ~user.isGuest) <=> session # None
        /\ session # None => user.id = session

\* C30: the profile-update mutation goes on to its write only when the
\* provider holds a session whose user id is the id in the patch; otherwise
\* it fails with its error, and the profiles table and the keys and data of
\* the cache entries are what they were
C30_UpdateRequiresOwnSession ==
    [][(opTask.kind = "updateProfile" /\ opTask.pc = "checkSession" /\ opTask' # opTask)
       => IF session # None /\ session = opTask.target
             THEN opTask'.pc = "update"
             ELSE /\ opTask' = Idle
                  /\ lastOp'.kind = "updateProfile"
                  /\ ~lastOp'.success
                  /\ ~lastOp'.flag
                  /\ lastOp'.error \in {Lit("No active session"), Lit("User ID mismatch")}
                  /\ profilesTable' = profilesTable
                  /\ {[key |-> e.key, data |-> e.data] : e \in cache'}
                        = {[key |-> e.key, data |-> e.data] : e \in cache}]_vars

\* the mutation has failed at its check: the provider holds the session of
\* another account than the one in the patch
C30_Witness ==
    /\ opTask = Idle
    /\ lastOp.kind = "updateProfile"
    /\ lastOp.error = Lit("User ID mismatch")
    /\ session # None
    /\ session # lastOp.userId

====
